---- MODULE Spec2Model ----
(***************************************************************************)
(* Model of the cleaning-robot tracker (robot/cleanbot/trackers.py).       *)
(*                                                                         *)
(* A CleanedRange is a record [start, end]; a Line is the Python list      *)
(* c_ranges, modelled as a sequence of such records; the rows and cols     *)
(* defaultdicts are functions whose DOMAIN is the set of keys created so   *)
(* far.  Python list indices are 0-based: Python c_ranges[i] is the        *)
(* sequence element c_ranges[i + 1].                                       *)
(***************************************************************************)
EXTENDS Integers, Sequences, FiniteSets, TLC

\* ------------------------------------------------------------------ bounds
MaxSteps == 2          \* largest step count of a drawn command
MaxCmds == 4           \* longest command sequence replayed under Spec
MaxBase == 4           \* longest closed command sequence repeated under SpecRepeat
MaxReps == 2           \* number of repetitions under SpecRepeat
MaxLineCoord == 3      \* Line-level inserts draw ranges within 0..MaxLineCoord
MaxInserts == 3        \* number of Line.insert calls under SpecLine
MaxJobCmds == 2        \* longest command list of a posted job under SpecJob
MaxJobSteps == 2       \* posted step counts lie within -MaxJobSteps..MaxJobSteps
MaxStart == 1          \* posted start coordinates lie within 0..MaxStart
MaxPosts == 2          \* number of times the job is posted under SpecJob

VARIABLES
    office,      \* RobotTracker.office: [robot_position, rows, cols]
    simple,      \* SimpleRobotTracker locals: [robot_pos, visited]
    commands,    \* the commands replayed so far (consumed prefix of the input)
    raised,      \* TRUE once Position.update raised ValueError
    base,        \* SpecRepeat: the command sequence that is being repeated
    c_ranges,    \* SpecLine: Line.c_ranges of a stand-alone Line
    inserted,    \* SpecLine: the arguments of the Line.insert calls made so far
    before,      \* SpecLine: c_ranges as it was before the last insert
    calls,       \* SpecLine: overlaps_with calls made by the last insert
    request,     \* SpecJob: request.data of the posted job: [start, commands]
    responses,   \* SpecJob: the responses given so far, one per POST
    executions   \* SpecJob: the rows of the executions table

vars == <<office, simple, commands, raised, base, c_ranges, inserted, before, calls,
          request, responses, executions>>

\* ------------------------------------------------------------- Position
ValidDirections == {"north", "south", "east", "west"}

\* a direction outside the domain, as a request body may carry one
InvalidDirection == "up"

Position(x, y) == [x |-> x, y |-> y]

\* Position.update raises ValueError exactly in its else branch
update_raises(direction) == direction \notin ValidDirections

\* Position.update; when it raises the position is left as it was
update(self, direction, steps) ==
    IF direction = "north" THEN [self EXCEPT !.y = self.y + steps]
    ELSE IF direction = "south" THEN [self EXCEPT !.y = self.y - steps]
    ELSE IF direction = "east" THEN [self EXCEPT !.x = self.x + steps]
    ELSE IF direction = "west" THEN [self EXCEPT !.x = self.x - steps]
    ELSE self

\* ---------------------------------------------------------- CleanedRange
CleanedRange(start, end) == [start |-> start, end |-> end]

\* __lt__ comparing the ends before the starts
lt_ends_first(self, other) ==
    \/ self.end < other.end
    \/ self.end = other.end /\ self.start < other.start

\* CleanedRange.__lt__: lexicographic on (start, end)
lt(self, other) ==
    \/ self.start < other.start
    \/ self.start = other.start /\ self.end < other.end

\* __len__ that leaves out the end cell
len_exclusive(self) == self.end - self.start

\* CleanedRange.__len__
len(self) == self.end - self.start + 1

\* CleanedRange.overlaps_with
overlaps_with(self, other) ==
    \/ self.start <= other.start /\ other.start <= self.end + 1
    \/ self.start - 1 <= other.end /\ other.end <= self.end

Min(a, b) == IF a <= b THEN a ELSE b
Max(a, b) == IF a >= b THEN a ELSE b

\* merge_with that never extends the end of self
merge_with_keep_end(self, other) ==
    CleanedRange(Min(self.start, other.start), self.end)

\* CleanedRange.merge_with: the value of self after the call
merge_with(self, other) ==
    CleanedRange(Min(self.start, other.start), Max(self.end, other.end))

\* ------------------------------------------------------------------ Line
\* bisect.bisect_left(a, x): the binary search of the standard library,
\* which compares with a[mid] < x; returns the 0-based insertion index
RECURSIVE bisect_loop(_, _, _, _)
bisect_loop(a, x, lo, hi) ==
    IF lo < hi
    THEN LET mid == (lo + hi) \div 2
         IN  IF lt(a[mid + 1], x)
             THEN bisect_loop(a, x, mid + 1, hi)
             ELSE bisect_loop(a, x, lo, mid)
    ELSE lo

bisect_left(a, x) == bisect_loop(a, x, 0, Len(a))

\* Line.insert: is_left_merged
is_left_merged(ranges, new) ==
    LET index == bisect_left(ranges, new)
    IN  index > 0 /\ overlaps_with(new, ranges[index])

\* Line.insert: is_right_merged
is_right_merged(ranges, new) ==
    LET index == bisect_left(ranges, new)
    IN  index < Len(ranges) /\ overlaps_with(new, ranges[index + 1])

\* _merge_existing_ranges without the pop: next_higher stays in the list
merge_existing_ranges_no_pop(ranges, index, next_higher, next_lower) ==
    [ranges EXCEPT ![index] = merge_with(next_lower, next_higher),
                   ![index + 1] = next_higher]

\* Line._merge_existing_ranges: next_lower absorbs next_higher, which is
\* popped from the list (Python index `index`)
merge_existing_ranges(ranges, index, next_higher, next_lower) ==
    LET merged == [ranges EXCEPT ![index] = merge_with(next_lower, next_higher)]
    IN  SubSeq(merged, 1, index) \o SubSeq(merged, index + 2, Len(merged))

\* Line.insert that never merges: the new range is always stored
insert_no_merge(ranges, new) ==
    LET index == bisect_left(ranges, new)
    IN  SubSeq(ranges, 1, index) \o <<new>> \o SubSeq(ranges, index + 1, Len(ranges))

\* Line.insert: the value of c_ranges after the call
insert(ranges, new) ==
    LET index == bisect_left(ranges, new)
        left == is_left_merged(ranges, new)
        right == is_right_merged(ranges, new)
        next_lower == merge_with(ranges[index], new)
        next_higher == merge_with(ranges[index + 1], new)
    IN  IF left /\ right
        THEN merge_existing_ranges(ranges, index, next_higher, next_lower)
        ELSE IF left THEN [ranges EXCEPT ![index] = next_lower]
        ELSE IF right THEN [ranges EXCEPT ![index + 1] = next_higher]
        ELSE SubSeq(ranges, 1, index) \o <<new>>
                 \o SubSeq(ranges, index + 1, Len(ranges))

\* the overlaps_with calls Line.insert makes, in order, with their results
insert_calls(ranges, new) ==
    LET index == bisect_left(ranges, new)
        call(other) == [self |-> new, other |-> other,
                        result |-> overlaps_with(new, other)]
    IN  (IF index > 0 THEN <<call(ranges[index])>> ELSE <<>>)
        \o (IF index < Len(ranges) THEN <<call(ranges[index + 1])>> ELSE <<>>)

\* __contains__ with the early exit on ranges that lie below the item
RECURSIVE contains_from_exit_below(_, _, _)
contains_from_exit_below(ranges, item, i) ==
    IF i > Len(ranges) THEN FALSE
    ELSE IF ranges[i].start <= item /\ item <= ranges[i].end THEN TRUE
    ELSE IF ranges[i].end < item THEN FALSE
    ELSE contains_from_exit_below(ranges, item, i + 1)

\* Line.__contains__: scan in list order, leaving at the first range whose
\* start lies beyond the item
RECURSIVE contains_from(_, _, _)
contains_from(ranges, item, i) ==
    IF i > Len(ranges) THEN FALSE
    ELSE IF ranges[i].start <= item /\ item <= ranges[i].end THEN TRUE
    ELSE IF ranges[i].start > item THEN FALSE
    ELSE contains_from(ranges, item, i + 1)

contains(ranges, item) == contains_from(ranges, item, 1)

\* range(c_range.start, c_range.end + 1) as a list
RECURSIVE coords_of(_, _)
coords_of(lo, hi) == IF lo > hi THEN <<>> ELSE <<lo>> \o coords_of(lo + 1, hi)

\* Line.cleaned_coords: a list, one entry per (range, coordinate) pair
RECURSIVE cleaned_coords_from(_, _)
cleaned_coords_from(ranges, i) ==
    IF i > Len(ranges) THEN <<>>
    ELSE coords_of(ranges[i].start, ranges[i].end)
             \o cleaned_coords_from(ranges, i + 1)

cleaned_coords(ranges) == cleaned_coords_from(ranges, 1)

\* Line.get_num_of_cleaned_vertices: sum of the ranges' lengths
RECURSIVE line_total_from(_, _)
line_total_from(ranges, i) ==
    IF i > Len(ranges) THEN 0
    ELSE len(ranges[i]) + line_total_from(ranges, i + 1)

Line_get_num_of_cleaned_vertices(ranges) == line_total_from(ranges, 1)

\* ---------------------------------------------------------------- Office
\* defaultdict(Line).__getitem__: a missing key yields a fresh empty Line
line_at(lines, key) == IF key \in DOMAIN lines THEN lines[key] ELSE <<>>

\* assignment into the defaultdict, creating the key when it is new
line_put(lines, key, ranges) ==
    [k \in DOMAIN lines \cup {key} |-> IF k = key THEN ranges ELSE lines[k]]

\* Office.__init__ with the start cell recorded in its row only
Office_init_row_only ==
    [robot_position |-> Position(0, 0),
     rows |-> line_put(<<>>, 0, insert(<<>>, CleanedRange(0, 0))),
     cols |-> <<>>]

\* Office.__init__
Office_init ==
    [robot_position |-> Position(0, 0),
     rows |-> line_put(<<>>, 0, insert(<<>>, CleanedRange(0, 0))),
     cols |-> line_put(<<>>, 0, insert(<<>>, CleanedRange(0, 0)))]

\* _get_range_for with the westward range one cell short
get_range_for_short(self, direction, steps) ==
    IF direction = "east"
    THEN CleanedRange(self.robot_position.x, self.robot_position.x + steps)
    ELSE IF direction = "west"
    THEN CleanedRange(Min(self.robot_position.x - steps + 1, self.robot_position.x),
                      self.robot_position.x)
    ELSE IF direction = "north"
    THEN CleanedRange(self.robot_position.y, self.robot_position.y + steps)
    ELSE CleanedRange(self.robot_position.y - steps, self.robot_position.y)

\* Office._get_range_for: any direction other than east, west, north falls
\* into the last branch
get_range_for(self, direction, steps) ==
    IF direction = "east"
    THEN CleanedRange(self.robot_position.x, self.robot_position.x + steps)
    ELSE IF direction = "west"
    THEN CleanedRange(self.robot_position.x - steps, self.robot_position.x)
    ELSE IF direction = "north"
    THEN CleanedRange(self.robot_position.y, self.robot_position.y + steps)
    ELSE CleanedRange(self.robot_position.y - steps, self.robot_position.y)

\* _add_range_to_line with the row keyed by x and the column keyed by y
add_range_to_line_swapped(self, direction, steps) ==
    LET c_range == get_range_for(self, direction, steps)
        y == self.robot_position.y
        x == self.robot_position.x
    IN  IF direction \in {"east", "west"}
        THEN [self EXCEPT !.rows =
                 line_put(self.rows, x, insert(line_at(self.rows, x), c_range))]
        ELSE [self EXCEPT !.cols =
                 line_put(self.cols, y, insert(line_at(self.cols, y), c_range))]

\* Office._add_range_to_line
add_range_to_line(self, direction, steps) ==
    LET c_range == get_range_for(self, direction, steps)
        y == self.robot_position.y
        x == self.robot_position.x
    IN  IF direction \in {"east", "west"}
        THEN [self EXCEPT !.rows =
                 line_put(self.rows, y, insert(line_at(self.rows, y), c_range))]
        ELSE [self EXCEPT !.cols =
                 line_put(self.cols, x, insert(line_at(self.cols, x), c_range))]

\* Office.move_robot: the range is recorded first, the position updated
\* (or the error raised) afterwards
move_robot(self, direction, steps) ==
    LET recorded == add_range_to_line(self, direction, steps)
    IN  [recorded EXCEPT
            !.robot_position = update(recorded.robot_position, direction, steps)]

\* ---------------------------------------------------------- RobotTracker
RECURSIVE sum_over(_, _)
sum_over(f, keys) ==
    IF keys = {} THEN 0
    ELSE LET k == CHOOSE k \in keys : TRUE
         IN  f[k] + sum_over(f, keys \ {k})

\* RobotTracker._row_total
row_total(self) ==
    sum_over([y \in DOMAIN self.rows |->
                 Line_get_num_of_cleaned_vertices(self.rows[y])],
             DOMAIN self.rows)

\* _unique_vertices_in_column without the row membership test
unique_vertices_in_column_all(self, col, x) == Len(cleaned_coords(col))

\* RobotTracker._unique_vertices_in_column
unique_vertices_in_column(self, col, x) ==
    LET ys == cleaned_coords(col)
    IN  Cardinality({i \in 1..Len(ys) : ~contains(line_at(self.rows, ys[i]), x)})

\* RobotTracker._col_total
col_total(self) ==
    sum_over([x \in DOMAIN self.cols |->
                 unique_vertices_in_column(self, self.cols[x], x)],
             DOMAIN self.cols)

\* the value RobotTracker.get_num_of_cleaned_vertices returns when the
\* replay loop ends with the office in this state
tally(self) == row_total(self) + col_total(self)

\* ---------------------------------------------------- SimpleRobotTracker
Simple_init == [robot_pos |-> Position(0, 0), visited |-> {<<0, 0>>}]

\* the set `places` of one loop iteration; the last branch takes every
\* direction that is not east, west or north
places(robot_pos, direction, steps) ==
    IF direction = "east"
    THEN {<<robot_pos.x + i, robot_pos.y>> : i \in 1..steps}
    ELSE IF direction = "west"
    THEN {<<robot_pos.x - i, robot_pos.y>> : i \in 1..steps}
    ELSE IF direction = "north"
    THEN {<<robot_pos.x, robot_pos.y + i>> : i \in 1..steps}
    ELSE {<<robot_pos.x, robot_pos.y - i>> : i \in 1..steps}

\* one iteration of SimpleRobotTracker.get_num_of_cleaned_vertices
simple_step(self, direction, steps) ==
    [robot_pos |-> update(self.robot_pos, direction, steps),
     visited |-> self.visited \cup places(self.robot_pos, direction, steps)]

\* the value SimpleRobotTracker.get_num_of_cleaned_vertices returns
simple_count(self) == Cardinality(self.visited)

\* ------------------------------------------------------------- commands
Command(direction, steps) == [direction |-> direction, steps |-> steps]

Steps == 0..MaxSteps

\* RobotTracker.get_num_of_cleaned_vertices on a fresh tracker: the office
\* after replaying cmds[1..n]
RECURSIVE replay(_, _)
replay(cmds, n) ==
    IF n = 0 THEN Office_init
    ELSE move_robot(replay(cmds, n - 1), cmds[n].direction, cmds[n].steps)

\* ================================================================== Spec
\* the replay loop of RobotTracker.get_num_of_cleaned_vertices, with the
\* naive tracker run on the same commands
LineIdle ==
    /\ c_ranges = <<>>
    /\ inserted = <<>>
    /\ before = <<>>
    /\ calls = <<>>

\* no job has been posted
JobIdle ==
    /\ request = [start |-> Position(0, 0), commands |-> <<>>]
    /\ responses = <<>>
    /\ executions = <<>>

Init ==
    /\ office = Office_init
    /\ simple = Simple_init
    /\ commands = <<>>
    /\ raised = FALSE
    /\ base = <<>>
    /\ LineIdle
    /\ JobIdle

\* one iteration of the loop over the commands
Replay ==
    /\ ~raised
    /\ Len(commands) < MaxCmds
    /\ \E direction \in ValidDirections \cup {InvalidDirection}, steps \in Steps :
          /\ office' = move_robot(office, direction, steps)
          /\ simple' = simple_step(simple, direction, steps)
          /\ commands' = Append(commands, Command(direction, steps))
          /\ raised' = update_raises(direction)
    /\ UNCHANGED <<base, c_ranges, inserted, before, calls>>
    /\ UNCHANGED <<request, responses, executions>>

Next == Replay

Spec == Init /\ [][Next]_vars

\* ============================================================== SpecLine
\* a stand-alone Line receiving Line.insert calls with well-formed ranges
LineRanges ==
    {r \in [start : 0..MaxLineCoord, end : 0..MaxLineCoord] : r.start <= r.end}

\* one call of Line.insert
Insert ==
    /\ Len(inserted) < MaxInserts
    /\ \E r \in LineRanges :
          /\ c_ranges' = insert(c_ranges, r)
          /\ calls' = insert_calls(c_ranges, r)
          /\ inserted' = Append(inserted, r)
          /\ before' = c_ranges
    /\ UNCHANGED <<office, simple, commands, raised, base>>
    /\ UNCHANGED <<request, responses, executions>>

NextLine == Insert

SpecLine == Init /\ [][NextLine]_vars

\* the argument of the last Line.insert call
new_range == inserted[Len(inserted)]

\* ============================================================ SpecRepeat
\* get_num_of_cleaned_vertices(base * n): a command sequence that returns
\* the robot to its starting cell, replayed several times in a row
BaseCommands == {Command(d, s) : d \in ValidDirections, s \in Steps}

ClosedSequences ==
    {b \in UNION {[1..k -> BaseCommands] : k \in 1..MaxBase} :
        replay(b, Len(b)).robot_position = Position(0, 0)}

InitRepeat ==
    /\ base \in ClosedSequences
    /\ office = Office_init
    /\ simple = Simple_init
    /\ commands = <<>>
    /\ raised = FALSE
    /\ LineIdle
    /\ JobIdle

\* one iteration of the loop over base * MaxReps
RepeatStep ==
    /\ Len(commands) < MaxReps * Len(base)
    /\ LET command == base[(Len(commands) % Len(base)) + 1]
       IN  /\ office' = move_robot(office, command.direction, command.steps)
           /\ simple' = simple_step(simple, command.direction, command.steps)
           /\ commands' = Append(commands, command)
           /\ raised' = update_raises(command.direction)
    /\ UNCHANGED <<base, c_ranges, inserted, before, calls>>
    /\ UNCHANGED <<request, responses, executions>>

NextRepeat == RepeatStep

SpecRepeat == InitRepeat /\ [][NextRepeat]_vars

\* =============================================================== SpecJob
\* PostCleaningJob.post (robot/views.py) with the Execution model and its
\* serializer; the wall-clock duration and the timestamp are left out

\* a tracker that keeps the office of the previous request
RobotTracker_kept(previous) == previous

\* RobotTracker(): every request gets a tracker with a new Office, whatever
\* office the tracker of the previous request ended with
RobotTracker_new(previous) == Office_init

\* the loop of RobotTracker.get_num_of_cleaned_vertices from command i on;
\* it ends at the first command on which Position.update raises
RECURSIVE get_num_loop(_, _, _)
get_num_loop(self, cmds, i) ==
    IF i > Len(cmds) THEN [office |-> self, raised |-> FALSE]
    ELSE LET moved == move_robot(self, cmds[i].direction, cmds[i].steps)
         IN  IF update_raises(cmds[i].direction)
             THEN [office |-> moved, raised |-> TRUE]
             ELSE get_num_loop(moved, cmds, i + 1)

\* the rows defaultdict after _col_total looked up rows[y] for every y of
\* every column: missing keys have become empty Lines
after_tally(self) ==
    LET ys == UNION {{cleaned_coords(self.cols[x])[i] :
                         i \in 1..Len(cleaned_coords(self.cols[x]))} :
                     x \in DOMAIN self.cols}
    IN  [self EXCEPT !.rows = [y \in DOMAIN self.rows \cup ys |-> line_at(self.rows, y)]]

\* len(c_range) in Line.get_num_of_cleaned_vertices: the builtin raises
\* ValueError when __len__ returns a negative number
len_raises(c_range) == len(c_range) < 0

\* _row_total raises when some row holds a range of negative length
row_total_raises(self) ==
    \E y \in DOMAIN self.rows :
        \E i \in 1..Len(self.rows[y]) : len_raises(self.rows[y][i])

\* RobotTracker.get_num_of_cleaned_vertices: the office it leaves, whether
\* it raised, and the count it returned; _row_total is evaluated before
\* _col_total, so a raise in it leaves the rows as the loop left them
RobotTracker_get_num_of_cleaned_vertices(self, cmds) ==
    LET end == get_num_loop(self, cmds, 1)
    IN  IF end.raised \/ row_total_raises(end.office)
        THEN [office |-> end.office, raised |-> TRUE, result |-> 0]
        ELSE [office |-> after_tally(end.office), raised |-> FALSE,
              result |-> tally(end.office)]

\* the serializer input with commands and result exchanged
serializer_data_swapped(cmds, result) == [commands |-> result, result |-> Len(cmds)]

\* the data handed to ExecutionSerializer
serializer_data(cmds, result) == [commands |-> Len(cmds), result |-> result]

\* ExecutionSerializer.is_valid: commands and result are
\* PositiveIntegerFields of Execution
is_valid(data) == data.commands >= 0 /\ data.result >= 0

\* serializer.save(): one new row with the next id
save(table, data) ==
    Append(table, [id |-> Len(table) + 1, commands |-> data.commands,
                   result |-> data.result])

HTTP_201_CREATED == 201
HTTP_400_BAD_REQUEST == 400
\* the answer to a request whose handler raised ValueError
HTTP_500_INTERNAL_SERVER_ERROR == 500

JobSteps == -MaxJobSteps..MaxJobSteps

JobCommands ==
    {Command(d, s) : d \in ValidDirections \cup {InvalidDirection}, s \in JobSteps}

\* the start positions a request may carry: the origin and one cell off
\* it along either axis
Starts == {Position(0, 0), Position(MaxStart, 0), Position(0, MaxStart)}

Requests ==
    [start : Starts,
     commands : UNION {[1..k -> JobCommands] : k \in 0..MaxJobCmds}]

InitJob ==
    /\ request \in Requests
    /\ responses = <<>>
    /\ executions = <<>>
    /\ office = Office_init
    /\ simple = Simple_init
    /\ commands = <<>>
    /\ raised = FALSE
    /\ base = <<>>
    /\ LineIdle

NoRecord == [id |-> 0, commands |-> 0, result |-> 0]

\* PostCleaningJob.post: one POST of the job
Post ==
    /\ Len(responses) < MaxPosts
    /\ \E call \in {RobotTracker_get_num_of_cleaned_vertices(
                        RobotTracker_new(office), request.commands)} :
         \E data \in {serializer_data(request.commands, call.result)} :
           /\ office' = call.office
           /\ IF call.raised
              THEN /\ executions' = executions
                   /\ responses' = Append(responses,
                          [status |-> HTTP_500_INTERNAL_SERVER_ERROR, raised |-> TRUE,
                           count |-> 0, data |-> NoRecord])
              ELSE IF is_valid(data)
              THEN /\ executions' = save(executions, data)
                   /\ responses' = Append(responses,
                          [status |-> HTTP_201_CREATED, raised |-> FALSE,
                           count |-> call.result,
                           data |-> save(executions, data)[Len(executions) + 1]])
              ELSE /\ executions' = executions
                   /\ responses' = Append(responses,
                          [status |-> HTTP_400_BAD_REQUEST, raised |-> FALSE,
                           count |-> call.result, data |-> NoRecord])
    /\ UNCHANGED <<request, simple, commands, raised, base>>
    /\ UNCHANGED <<c_ranges, inserted, before, calls>>

NextJob == Post

SpecJob == InitJob /\ [][NextJob]_vars

\* ================================================================ claims
\* some stored range of the Line has start <= c <= end
covered(ranges, c) ==
    \E i \in 1..Len(ranges) : ranges[i].start <= c /\ c <= ranges[i].end

SetMax(S) == CHOOSE m \in S : \A n \in S : n <= m
SetMin(S) == CHOOSE m \in S : \A n \in S : m <= n

\* every command replayed so far has its direction in dirs
AllAlong(dirs) == \A i \in 1..Len(commands) : commands[i].direction \in dirs

\* the x and the y coordinates the robot has reached
ReachedX == {cell[1] : cell \in simple.visited}
ReachedY == {cell[2] : cell \in simple.visited}

\* the cells (x, y) with x inside some range of rows[y]
RowCells ==
    UNION {UNION {{<<x, y>> : x \in office.rows[y][i].start..office.rows[y][i].end} :
                      i \in 1..Len(office.rows[y])} : y \in DOMAIN office.rows}

\* the cells (x, y) with y inside some range of cols[x]
ColCells ==
    UNION {UNION {{<<x, y>> : y \in office.cols[x][i].start..office.cols[x][i].end} :
                      i \in 1..Len(office.cols[x])} : x \in DOMAIN office.cols}

\* every row and column Line of the office
OfficeLines ==
    {office.rows[y] : y \in DOMAIN office.rows}
        \cup {office.cols[x] : x \in DOMAIN office.cols}

\* C1: for every command sequence with valid directions and non-negative
\* steps, RobotTracker's count equals the naive set-based count.
C1_EqualsNaive == ~raised => tally(office) = simple_count(simple)

\* C2: in every reachable state no two consecutive stored ranges of any row
\* or column Line overlap or touch: ranges[i].end + 1 < ranges[i+1].start.
C2_NoOverlapNoTouch ==
    \A ranges \in OfficeLines :
        \A i \in 1..(Len(ranges) - 1) : ranges[i].end + 1 < ranges[i + 1].start

\* C3: when all moves are along one axis, the count is the number of lattice
\* points between the smallest and largest coordinate reached on that axis.
C3_SingleAxis ==
    /\ AllAlong({"north", "south"})
          => tally(office) = SetMax(ReachedY) - SetMin(ReachedY) + 1
    /\ AllAlong({"east", "west"})
          => tally(office) = SetMax(ReachedX) - SetMin(ReachedX) + 1

\* C4: a command sequence that returns the robot to its starting cell yields
\* the same count when executed n >= 1 times in a row as when executed once.
C4_RepeatSameCount ==
    (Len(commands) > 0 /\ Len(commands) % Len(base) = 0)
        => tally(office) = tally(replay(base, Len(base)))

\* C5: with an empty command list the result is 1, although the starting
\* cell is recorded both in a row Line and in a column Line.
C5_EmptyIsOne == commands = <<>> => tally(office) = 1

C5_Witness ==
    /\ commands = <<>>
    /\ office.rows[0] = <<CleanedRange(0, 0)>>
    /\ office.cols[0] = <<CleanedRange(0, 0)>>
    /\ row_total(office) = 1
    /\ col_total(office) = 0

\* C6: inserting a range whose coordinates are all covered already leaves
\* the Line's total covered length unchanged.
C6_CoveredInsertKeepsTotal ==
    (/\ Len(inserted) > 0
     /\ \A c \in new_range.start..new_range.end : covered(before, c))
        => Line_get_num_of_cleaned_vertices(c_ranges)
               = Line_get_num_of_cleaned_vertices(before)

\* C7: the Line's total covered length after an insert is at least its
\* total covered length before the insert.
C7_TotalNeverDecreases ==
    Len(inserted) > 0
        => Line_get_num_of_cleaned_vertices(c_ranges)
               >= Line_get_num_of_cleaned_vertices(before)

\* C8: when replay reaches a command with an invalid direction, the error is
\* raised with the robot position and all Lines exactly as the previously
\* applied commands left them.
C8_ErrorLeavesOfficeUntouched ==
    raised => office = replay(commands, Len(commands) - 1)

\* C9: a.overlaps_with(b) is true exactly when the well-formed ranges a and b
\* share a coordinate or are adjacent, also when b strictly contains a.
C9_OverlapsIffTouching ==
    \A i \in 1..Len(calls) :
        calls[i].result
            = (/\ calls[i].self.start <= calls[i].other.end + 1
               /\ calls[i].other.start <= calls[i].self.end + 1)

NumRanges ==
    sum_over([y \in DOMAIN office.rows |-> Len(office.rows[y])], DOMAIN office.rows)
        + sum_over([x \in DOMAIN office.cols |-> Len(office.cols[x])], DOMAIN office.cols)

\* C11 as stated: the total number of ranges stored across all row and
\* column Lines does not exceed the number of move commands applied so far.
C11_RangesAtMostCommands == NumRanges <= Len(commands)

\* C11 as amended: the start cell contributes two ranges before any command,
\* so the number of stored ranges is 2 with no command applied and at most
\* the number of commands plus one afterwards.
C11_RangesAtMostCommandsPlusOne == NumRanges <= Max(2, Len(commands) + 1)

C11_Witness == Len(commands) >= 2 /\ NumRanges = Len(commands) + 1

\* the office as the commands before the last one left it
PrevOffice == replay(commands, Len(commands) - 1)

LastCommand == commands[Len(commands)]

\* C12: a zero-step move in a valid direction raises no error, leaves the
\* robot position unchanged and leaves the final count unchanged.
C12_ZeroStepIsNoOp ==
    (/\ Len(commands) > 0
     /\ LastCommand.steps = 0
     /\ LastCommand.direction \in ValidDirections)
        => /\ ~raised
           /\ office.robot_position = PrevOffice.robot_position
           /\ tally(office) = tally(PrevOffice)

\* two well-formed ranges that neither share a coordinate nor touch
Separated(a, b) == a.end + 1 < b.start \/ b.end + 1 < a.start

\* C13: for every reachable Line and any two ranges A and B that are
\* disjoint and non-adjacent, inserting A then B and inserting B then A
\* produce the same total covered length.
C13_InsertOrderIrrelevant ==
    \A a \in LineRanges, b \in LineRanges :
        Separated(a, b)
            => Line_get_num_of_cleaned_vertices(insert(insert(c_ranges, a), b))
                   = Line_get_num_of_cleaned_vertices(insert(insert(c_ranges, b), a))

\* every Line other than the one at key is what it was
OtherLinesUnchanged(lines, prev, key) ==
    \A k \in (DOMAIN lines \cup DOMAIN prev) \ {key} :
        line_at(lines, k) = line_at(prev, k)

\* C18: a horizontal move from (x, y) to (x', y) inserts exactly the range
\* [min(x, x'), max(x, x')] into rows[y] and leaves all columns and all other
\* rows unchanged; a vertical move does the same with cols[x]; the position
\* is translated by the steps with the other coordinate unchanged.
C18_MoveFrame ==
    [][(/\ Len(commands') = Len(commands) + 1
        /\ commands'[Len(commands')].direction \in ValidDirections)
        => LET old == office.robot_position
               new == office'.robot_position
               s == commands'[Len(commands')].steps
               dir == commands'[Len(commands')].direction
           IN  /\ dir = "east" => new = Position(old.x + s, old.y)
               /\ dir = "west" => new = Position(old.x - s, old.y)
               /\ dir = "north" => new = Position(old.x, old.y + s)
               /\ dir = "south" => new = Position(old.x, old.y - s)
               /\ dir \in {"east", "west"} =>
                     /\ office'.cols = office.cols
                     /\ OtherLinesUnchanged(office'.rows, office.rows, old.y)
                     /\ office'.rows[old.y] =
                            insert(line_at(office.rows, old.y),
                                   CleanedRange(Min(old.x, new.x), Max(old.x, new.x)))
               /\ dir \in {"north", "south"} =>
                     /\ office'.rows = office.rows
                     /\ OtherLinesUnchanged(office'.cols, office.cols, old.x)
                     /\ office'.cols[old.x] =
                            insert(line_at(office.cols, old.x),
                                   CleanedRange(Min(old.y, new.y), Max(old.y, new.y)))]_vars

C18_Witness ==
    /\ Len(commands) > 1
    /\ LastCommand.direction = "west"
    /\ LastCommand.steps > 0
    /\ office.robot_position.y /= 0
    /\ Len(office.rows[office.robot_position.y]) = 1
    /\ DOMAIN office.cols /= {0}

\* the number of overlaps_with calls of the last insert that returned True
NumMerges == Cardinality({i \in 1..Len(calls) : calls[i].result})

C20_ContainsIffCovered ==
    \A c \in -1..(MaxLineCoord + 1) : contains(c_ranges, c) <=> covered(c_ranges, c)

C20_Witness ==
    /\ Len(c_ranges) = 2
    /\ contains(c_ranges, c_ranges[2].end)
    /\ ~contains(c_ranges, c_ranges[1].end + 1)
    /\ c_ranges[1].end + 1 < c_ranges[2].start

\* the last response given
LastResponse == responses[Len(responses)]

\* the office holds exactly the single start cell, in its row and its column
StartOnlyAt(x, y) ==
    /\ office.robot_position = Position(x, y)
    /\ DOMAIN office.rows = {y}
    /\ office.rows[y] = <<CleanedRange(x, x)>>
    /\ DOMAIN office.cols = {x}
    /\ office.cols[x] = <<CleanedRange(y, y)>>

\* C14 as stated: the job's grid is constructed from the supplied start:
\* the position is start and the only recorded cells are [start.x] in
\* rows[start.y] and [start.y] in cols[start.x].
C14_GridBuiltFromStart ==
    (Len(responses) > 0 /\ request.commands = <<>>)
        => StartOnlyAt(request.start.x, request.start.y)

\* C14 as amended: the job's grid is constructed at the origin whatever
\* start the caller supplies: the position is (0, 0) and the only recorded
\* cells are [0] in rows[0] and [0] in cols[0].
C14_GridBuiltAtOrigin ==
    (Len(responses) > 0 /\ request.commands = <<>>) => StartOnlyAt(0, 0)

C14_Witness ==
    /\ Len(responses) > 0
    /\ request.commands = <<>>
    /\ request.start = Position(0, MaxStart)
    /\ LastResponse.status = HTTP_201_CREATED
    /\ LastResponse.data.result = 1

HasNegativeSteps(cmds) == \E i \in 1..Len(cmds) : cmds[i].steps < 0

\* C15: a command with a negative step count is rejected with an error
\* instead of being applied, and no range with start > end is stored.
C15_NegativeStepsRejected ==
    (Len(responses) > 0 /\ HasNegativeSteps(request.commands))
        => /\ LastResponse.raised
           /\ \A ranges \in OfficeLines :
                 \A i \in 1..Len(ranges) : ranges[i].start <= ranges[i].end

ValidJob ==
    \A i \in 1..Len(request.commands) :
        /\ request.commands[i].direction \in ValidDirections
        /\ request.commands[i].steps >= 0

CellCovered(x, y) ==
    \/ covered(line_at(office.rows, y), x)
    \/ covered(line_at(office.cols, x), y)

\* C21: after any sequence of valid moves with non-negative steps the cells
\* covered by the stored ranges of the rows and columns are exactly the
\* cells the robot has visited: merging never covers an unvisited cell and
\* never drops a visited one.
C21_CoveredExactlyVisited ==
    ~raised =>
        /\ \A cell \in RowCells : cell \in simple.visited
        /\ \A cell \in ColCells : cell \in simple.visited
        /\ \A cell \in simple.visited : CellCovered(cell[1], cell[2])

C21_Witness ==
    /\ ~raised
    /\ Len(commands) >= 3
    /\ \E ranges \in OfficeLines :
          \E i \in 1..Len(ranges) : len(ranges[i]) > MaxSteps + 1
    /\ RowCells \ ColCells /= {}
    /\ ColCells \ RowCells /= {}
    /\ Cardinality(simple.visited) > MaxSteps + 2

\* C22: for every command sequence with valid directions and non-negative
\* steps the count RobotTracker returns is never smaller than the number of
\* distinct cells visited.
C22_CountAtLeastVisited ==
    ~raised => tally(office) >= Cardinality(simple.visited)

C22_Witness ==
    /\ ~raised
    /\ Cardinality(simple.visited) >= 3
    /\ tally(office) > Cardinality(simple.visited)

\* the starts of the ranges of a Line increase strictly
StartsIncrease(ranges) ==
    \A i \in 1..(Len(ranges) - 1) : ranges[i].start < ranges[i + 1].start

\* the Line is sorted by (start, end) as __lt__ orders ranges
SortedByLt(ranges) ==
    \A i \in 1..(Len(ranges) - 1) : lt(ranges[i], ranges[i + 1])

\* C23: in every reachable Line the stored ranges have strictly increasing
\* starts, so the list is sorted by (start, end) and the binary search of
\* Line.insert works on a sorted list and returns the number of stored
\* ranges smaller than the new range, also after in-place merges.
C23_StartsStrictlyIncrease ==
    /\ StartsIncrease(c_ranges)
    /\ SortedByLt(c_ranges)
    /\ Len(inserted) > 0 =>
          /\ SortedByLt(before)
          /\ bisect_left(before, new_range)
                 = Cardinality({i \in 1..Len(before) : lt(before[i], new_range)})

\* an insert merged into its right neighbour only and moved that
\* neighbour's start, behind a left neighbour that was left alone
C23_Witness ==
    /\ Len(inserted) > 0
    /\ Len(before) = 2
    /\ Len(c_ranges) = 2
    /\ c_ranges[1] = before[1]
    /\ c_ranges[2].start < before[2].start
    /\ c_ranges[2].end <= c_ranges[1].end

====
